---- MODULE Spec2Model ----
(***************************************************************************)
(* Model of GEPreProcessor (src/ge_processor/ge_pre_processor.py): the     *)
(* pipeline load_data -> smooth_data -> find_blobs -> find_local_maxima    *)
(* over a small detector frame stack.                                      *)
(*                                                                         *)
(* Conventions                                                             *)
(*  - A volume is a function from Vox(shape) to Int; a voxel is            *)
(*    <<frame, row, column>>, 0-based, as numpy indexes it.                *)
(*  - write_image, the logger and pickle.dump are output only and are not  *)
(*    modelled.  The diagnostic slices frame_list[100, 100:400, 1350:1650] *)
(*    assume a full-size detector stack; the model scales the stack down   *)
(*    and takes the slice to be in range.                                  *)
(*  - Raw intensities and thresholds are zero or powers of two, so that    *)
(*    the float products of load_data are exact integers.                  *)
(*  - int_scale_factor = 2^14 / max is kept as the exact fraction          *)
(*    <<numerator, denominator>>.                                          *)
(*  - ge_smooth_data is kept as exact numerators over the common           *)
(*    denominator SmoothDenom(gauss_sigma) (real arithmetic, no rounding). *)
(***************************************************************************)
EXTENDS Integers, Sequences, FiniteSets, TLC

VARIABLES
    pc,                  \* position of the run in the pipeline
    shape,               \* <<n_frames, rows, columns>> of the reader's stack
    frames,              \* the frames the reader delivers (raw intensities)
    threshold,           \* cfg.fit_grains.threshold
    gauss_sigma,         \* self.gauss_sigma
    min_blob_size,       \* self.min_blob_size
    min_peak_separation, \* self.min_peak_separation
    ge_data,             \* self.ge_data
    int_scale_factor,    \* self.int_scale_factor, <<numerator, denominator>>
    ge_smooth_data,      \* self.ge_smooth_data (numerators)
    ge_labeled_data,     \* self.ge_labeled_data
    number_of_labels,    \* self.number_of_labels
    blob_sizes,          \* self.blob_sizes
    blobs,               \* self.blobs
    blob_i,              \* position of the loop "for blob in blobs"
    error                \* the exception that ended the run, or "none"

vars == <<pc, shape, frames, threshold, gauss_sigma, min_blob_size,
          min_peak_separation, ge_data, int_scale_factor, ge_smooth_data,
          ge_labeled_data, number_of_labels, blob_sizes, blobs, blob_i, error>>

----------------------------------------------------------------------------
(* Bounds of the model *)

MinExp == 12
MaxExp == 14
MaxMinBlobSize == 2
MaxSeparation == 2

\* the stacks of the runs: up to two frames of 2 x 2 pixels
Shapes == {<<0, 2, 2>>, <<1, 2, 2>>, <<2, 2, 2>>}

Pow2(e) == 2 ^ e

\* raw intensities: 0 and the powers of two from 2^(MinExp - 1) to 2^MaxExp;
\* the threshold is the second lowest of them
Intensity == {0} \cup {Pow2(e) : e \in (MinExp - 1)..MaxExp}
Thresholds == {Pow2(MinExp)}

----------------------------------------------------------------------------
(* numpy arrays *)

Vox(sh) == (0..(sh[1] - 1)) \X (0..(sh[2] - 1)) \X (0..(sh[3] - 1))

Empty == << >>

SetMax(S) == CHOOSE x \in S : \A y \in S : y <= x
SetMin(S) == CHOOSE x \in S : \A y \in S : x <= y

\* position of a voxel in C (row-major) order, the order numpy and ndimage scan
COrder(sh, v) == (v[1] * sh[2] + v[2]) * sh[3] + v[3]


----------------------------------------------------------------------------
(* load_data *)

FullScale == 16384

\* the thresholding left out
KeepAllFrames(fl, t) == fl

\* the comparison of the thresholding turned round
ThresholdFramesAbove(fl, t) == [v \in DOMAIN fl |-> IF fl[v] > t THEN 0 ELSE fl[v]]

\* frame_list[frame_list < cfg.fit_grains.threshold] = 0
ThresholdFrames(fl, t) == [v \in DOMAIN fl |-> IF fl[v] < t THEN 0 ELSE fl[v]]

\* np.amax(frame_list); only used on a non-empty stack
Amax(fl) == SetMax({fl[v] : v \in DOMAIN fl})

\* frame_list * int_scale_factor, with int_scale_factor = sf[1] / sf[2]
ScaleFrames(fl, sf) == [v \in DOMAIN fl |-> (fl[v] * sf[1]) \div sf[2]]

\* the exception load_data raises on this input, or "none"
LoadDataError(sh, fl, t) ==
    IF sh[1] = 0 THEN "ValueError"             \* np.amax of an empty array
    ELSE IF Amax(ThresholdFrames(fl, t)) = 0
         THEN "ZeroDivisionError"              \* float(2**14) / float(0)
         ELSE "none"

LoadedScale(fl, t) == <<FullScale, Amax(ThresholdFrames(fl, t))>>

LoadedData(fl, t) == ScaleFrames(ThresholdFrames(fl, t), LoadedScale(fl, t))

load_data ==
    /\ pc = "constructed"
    /\ IF LoadDataError(shape, frames, threshold) # "none"
       THEN /\ error' = LoadDataError(shape, frames, threshold)
            /\ pc' = "failed"
            /\ UNCHANGED <<ge_data, int_scale_factor>>
       ELSE /\ ge_data' = LoadedData(frames, threshold)
            /\ int_scale_factor' = LoadedScale(frames, threshold)
            /\ pc' = "loaded"
            /\ UNCHANGED error
    /\ UNCHANGED <<shape, frames, threshold, gauss_sigma, min_blob_size,
                   min_peak_separation, ge_smooth_data, ge_labeled_data,
                   number_of_labels, blob_sizes, blobs, blob_i>>

----------------------------------------------------------------------------
(* smooth_data: ndimage.filters.gaussian_filter(ge_data, gauss_sigma,       *)
(* truncate=2), mode 'reflect'.  gauss_sigma is "0" (no axis is filtered,  *)
(* the output is a copy of the input) or "1/sqrt(2 ln 2)", for which the   *)
(* kernel radius is int(2 * 0.849 + 0.5) = 2 and the weights exp(-k^2 /    *)
(* (2 sigma^2)) = 2^(-k^2) are 1/16, 1/2, 1, 1/2, 1/16, normalised to      *)
(* <<1, 8, 16, 8, 1>> / 34.                                                *)

Sigmas == {"0", "1/sqrt(2 ln 2)"}

GaussWeights(sigma) == IF sigma = "0" THEN <<1>> ELSE <<1, 8, 16, 8, 1>>

GaussRadius(sigma) == (Len(GaussWeights(sigma)) - 1) \div 2

RECURSIVE SeqSum(_)
SeqSum(s) == IF s = << >> THEN 0 ELSE Head(s) + SeqSum(Tail(s))

\* the denominator of ge_smooth_data: the kernel sum, once per axis
SmoothDenom(sigma) == SeqSum(GaussWeights(sigma)) ^ 3

\* index extension of mode 'reflect' (d c b a | a b c d | d c b a)
Reflect(i, n) ==
    IF n <= 1 THEN 0
    ELSE IF i < 0 THEN (-i) - 1
    ELSE IF i >= n THEN 2 * n - i - 1
    ELSE i

SetAxis(v, axis, i) == [v EXCEPT ![axis] = i]

\* gaussian_filter1d along one axis, numerators only
GaussFilter1d(vol, sh, axis, sigma) ==
    LET w == GaussWeights(sigma)
        r == GaussRadius(sigma)
    IN  [v \in DOMAIN vol |->
            SeqSum([k \in 1..Len(w) |->
                w[k] * vol[SetAxis(v, axis, Reflect(v[axis] + k - 1 - r, sh[axis]))]])]

GaussianFilter(vol, sh, sigma) ==
    IF sigma = "0" THEN vol
    ELSE GaussFilter1d(GaussFilter1d(GaussFilter1d(vol, sh, 1, sigma),
                                     sh, 2, sigma), sh, 3, sigma)

smooth_data ==
    /\ pc = "loaded"
    /\ ge_smooth_data' = GaussianFilter(ge_data, shape, gauss_sigma)
    /\ pc' = "smoothed"
    /\ UNCHANGED <<shape, frames, threshold, gauss_sigma, min_blob_size,
                   min_peak_separation, ge_data, int_scale_factor,
                   ge_labeled_data, number_of_labels, blob_sizes, blobs,
                   blob_i, error>>

----------------------------------------------------------------------------
(* find_blobs *)

\* ge_mask = ge_data_smooth > cfg.fit_grains.threshold, as the set of true voxels
GeMask(smooth, sigma, t) ==
    {v \in DOMAIN smooth : smooth[v] > t * SmoothDenom(sigma)}

Abs(i) == IF i < 0 THEN -i ELSE i

\* the default structuring element of ndimage.label: face adjacency
Adjacent(u, w) == Abs(u[1] - w[1]) + Abs(u[2] - w[2]) + Abs(u[3] - w[3]) = 1

RECURSIVE Grow(_, _)
Grow(S, mask) ==
    LET N == S \cup {w \in mask : \E u \in S : Adjacent(u, w)}
    IN  IF N = S THEN S ELSE Grow(N, mask)

\* the voxel of a non-empty set that the scan meets first
FirstVoxel(sh, S) == CHOOSE v \in S : \A w \in S : COrder(sh, v) <= COrder(sh, w)

\* the connected components of the mask, in the order the scan meets them
RECURSIVE Components(_, _)
Components(sh, mask) ==
    IF mask = {} THEN << >>
    ELSE LET comp == Grow({FirstVoxel(sh, mask)}, mask)
         IN  <<comp>> \o Components(sh, mask \ comp)

\* ndimage.label(ge_mask)[0]: components are numbered from 1 in scan order
LabelVolume(sh, mask) ==
    LET comps == Components(sh, mask)
    IN  [v \in Vox(sh) |->
            IF v \in mask THEN CHOOSE k \in 1..Len(comps) : v \in comps[k] ELSE 0]

\* ndimage.label(ge_mask)[1]
NumberOfLabels(sh, mask) == Len(Components(sh, mask))

\* ndimage.sum(ge_mask, label_ge, range(number_of_labels + 1)):
\* element i + 1 is the sum of ge_mask over the voxels labelled i
NdimageSum(mask, label_ge, n) ==
    [i \in 1..(n + 1) |->
        Cardinality({v \in DOMAIN label_ge : label_ge[v] = i - 1 /\ v \in mask})]

RECURSIVE SortedSeq(_)
SortedSeq(S) ==
    IF S = {} THEN << >> ELSE <<SetMin(S)>> \o SortedSeq(S \ {SetMin(S)})

\* np.unique(label_ge)
NpUnique(label_ge) == SortedSeq({label_ge[v] : v \in DOMAIN label_ge})

\* ndimage.find_objects(label_ge == label_num)[0]: per axis <<start, stop>>
FindObjects(label_ge, label_num) ==
    LET obj == {v \in DOMAIN label_ge : label_ge[v] = label_num}
    IN  [axis \in 1..3 |-> <<SetMin({v[axis] : v \in obj}),
                             SetMax({v[axis] : v \in obj}) + 1>>]

GEBlob(slice_x, slice_y, slice_z, blob_label, blob_size) ==
    [slice_x |-> slice_x, slice_y |-> slice_y, slice_z |-> slice_z,
     blob_label |-> blob_label, blob_size |-> blob_size]

\* the largest extent where the smallest is meant
Max3(a, b, c) == SetMax({a, b, c})

Min3(a, b, c) == SetMin({a, b, c})

\* min(bbox) < min_size ** (1.0/3.0), on integers: b < cbrt(m) iff b^3 < m
BelowCubeRoot(b, min_size) == b * b * b < min_size

\* one pass of "for label_num, blob_size in zip(blob_labels, blob_sizes)"
\* from position k on
RECURSIVE FilterBlobs(_, _, _, _, _)
FilterBlobs(label_ge, labels, sizes, min_size, k) ==
    IF k > Len(labels) \/ k > Len(sizes) THEN << >>
    ELSE LET label_num == labels[k]
             blob_size == sizes[k]
             rest      == FilterBlobs(label_ge, labels, sizes, min_size, k + 1)
         IN  IF label_num = 0 THEN rest
             ELSE IF blob_size < min_size THEN rest
             ELSE LET sl   == FindObjects(label_ge, label_num)
                      bbox == Min3(sl[1][2] - sl[1][1], sl[2][2] - sl[2][1],
                                   sl[3][2] - sl[3][1])
                  IN  IF BelowCubeRoot(bbox, min_size) THEN rest
                      ELSE <<GEBlob(sl[1], sl[2], sl[3], label_num, blob_size)>>
                           \o rest

find_blobs ==
    /\ pc = "smoothed"
    /\ LET ge_mask   == GeMask(ge_smooth_data, gauss_sigma, threshold)
           label_ge  == LabelVolume(shape, ge_mask)
           n         == NumberOfLabels(shape, ge_mask)
           sizes     == NdimageSum(ge_mask, label_ge, n)
       IN  /\ ge_labeled_data' = label_ge
           /\ number_of_labels' = n
           /\ blob_sizes' = sizes
           /\ blobs' = FilterBlobs(label_ge, NpUnique(label_ge), sizes,
                                   min_blob_size, 1)
    /\ pc' = "labeled"
    /\ UNCHANGED <<shape, frames, threshold, gauss_sigma, min_blob_size,
                   min_peak_separation, ge_data, int_scale_factor,
                   ge_smooth_data, blob_i, error>>

----------------------------------------------------------------------------
(* find_local_maxima *)

\* the voxels of ge_data[slice_x, slice_y, slice_z]
Roi(blob) ==
    {v \in (blob.slice_x[1]..(blob.slice_x[2] - 1))
           \X (blob.slice_y[1]..(blob.slice_y[2] - 1))
           \X (blob.slice_z[1]..(blob.slice_z[2] - 1)) : TRUE}

BlobSlice(blob, axis) ==
    IF axis = 1 THEN blob.slice_x ELSE IF axis = 2 THEN blob.slice_y
    ELSE blob.slice_z

\* a filter of the given size reaches from -(size / 2) to size - size / 2 - 1
\* around its centre (origin 0)
FilterOffsets(size) == (-(size \div 2))..(size - (size \div 2) - 1)

\* index extension of mode 'nearest' (a a a | a b c d | d d d) within a slice
Nearest(i, sl) == IF i < sl[1] THEN sl[1] ELSE IF i >= sl[2] THEN sl[2] - 1 ELSE i

\* the voxels of the roi that the filter window centred on v reads
Window(blob, v, size) ==
    {<<Nearest(v[1] + d[1], BlobSlice(blob, 1)),
       Nearest(v[2] + d[2], BlobSlice(blob, 2)),
       Nearest(v[3] + d[3], BlobSlice(blob, 3))>> :
        d \in FilterOffsets(size) \X FilterOffsets(size) \X FilterOffsets(size)}

\* the minimum filter where the maximum filter is meant
MinimumFilter(data, blob, v, size) ==
    SetMin({data[w] : w \in Window(blob, v, size)})

\* ndimage.maximum_filter(roi, size, mode='nearest') at voxel v of the roi
MaximumFilter(data, blob, v, size) ==
    SetMax({data[w] : w \in Window(blob, v, size)})

\* max_points = roi == ndimage.maximum_filter(roi, min_peak_separation, ...)
MaxPoints(data, blob, size) ==
    {v \in Roi(blob) : data[v] = MaximumFilter(data, blob, v, size)}

\* roi < int_scale_factor * cfg.fit_grains.threshold, with the scale factor
\* sf[1] / sf[2]
BelowScaledThreshold(x, sf, t) == x * sf[2] < sf[1] * t

\* the maxima zeroed where the non-maxima are meant (np.logical_not left out)
SuppressMaxima(data, blob, size) ==
    LET max_points == MaxPoints(data, blob, size)
    IN  [v \in DOMAIN data |->
            IF v \in Roi(blob) /\ v \in max_points THEN 0 ELSE data[v]]

\* The body of "for blob in blobs".  roi is a view of ge_data (basic slicing),
\* so the assignment roi[np.logical_not(max_points)] = 0 writes ge_data.
\* The statement max_points[roi < int_scale_factor * threshold] only reads:
\* its value is dropped and max_points stays as it is.
SuppressNonMaxima(data, blob, size) ==
    LET max_points == MaxPoints(data, blob, size)
    IN  [v \in DOMAIN data |->
            IF v \in Roi(blob) /\ v \notin max_points THEN 0 ELSE data[v]]

find_local_maxima_blob ==
    /\ pc = "labeled"
    /\ blob_i <= Len(blobs)
    /\ ge_data' = SuppressNonMaxima(ge_data, blobs[blob_i], min_peak_separation)
    /\ blob_i' = blob_i + 1
    /\ UNCHANGED <<pc, shape, frames, threshold, gauss_sigma, min_blob_size,
                   min_peak_separation, int_scale_factor, ge_smooth_data,
                   ge_labeled_data, number_of_labels, blob_sizes, blobs, error>>

find_local_maxima_return ==
    /\ pc = "labeled"
    /\ blob_i > Len(blobs)
    /\ pc' = "done"
    /\ UNCHANGED <<shape, frames, threshold, gauss_sigma, min_blob_size,
                   min_peak_separation, ge_data, int_scale_factor,
                   ge_smooth_data, ge_labeled_data, number_of_labels,
                   blob_sizes, blobs, blob_i, error>>

----------------------------------------------------------------------------
(* The run: GEPreProcessor(cfg, logger, ...) and the four stages in order *)

\* The stacks the reader delivers: in each frame the lit pixels share one
\* intensity (the frame's exposure), the others are 0.
FrameStacks(sh) ==
    {[v \in Vox(sh) |-> IF v \in lit THEN gain[v[1]] ELSE 0] :
        lit \in SUBSET Vox(sh), gain \in [0..(sh[1] - 1) -> Intensity \ {0}]}

Init ==
    /\ pc = "constructed"
    /\ shape \in Shapes
    /\ frames \in FrameStacks(shape)
    /\ threshold \in Thresholds
    /\ gauss_sigma \in Sigmas
    /\ min_blob_size \in 0..MaxMinBlobSize
    /\ min_peak_separation \in 2..MaxSeparation
    /\ ge_data = Empty
    /\ ge_smooth_data = Empty
    /\ ge_labeled_data = Empty
    /\ number_of_labels = 0
    /\ int_scale_factor = <<1, 1>>
    /\ blob_sizes = Empty
    /\ blobs = Empty
    /\ blob_i = 1
    /\ error = "none"

Next ==
    \/ load_data
    \/ smooth_data
    \/ find_blobs
    \/ find_local_maxima_blob
    \/ find_local_maxima_return

Spec == Init /\ [][Next]_vars

----------------------------------------------------------------------------
(* Runs on three frames whose exposure halves from frame to frame, with a   *)
(* threshold below every lit pixel and no smoothing: the stacks on which    *)
(* the bounding boxes of several blobs can share voxels.                   *)

OverlapShape == <<3, 2, 2>>

OverlapStacks ==
    {[v \in Vox(OverlapShape) |-> IF v \in lit THEN Pow2(MaxExp - v[1]) ELSE 0] :
        lit \in SUBSET Vox(OverlapShape)}

InitOverlap ==
    /\ pc = "constructed"
    /\ shape = OverlapShape
    /\ frames \in OverlapStacks
    /\ threshold = Pow2(MinExp - 1)
    /\ gauss_sigma = "0"
    /\ min_blob_size \in 0..1
    /\ min_peak_separation = MaxSeparation
    /\ ge_data = Empty
    /\ ge_smooth_data = Empty
    /\ ge_labeled_data = Empty
    /\ number_of_labels = 0
    /\ int_scale_factor = <<1, 1>>
    /\ blob_sizes = Empty
    /\ blobs = Empty
    /\ blob_i = 1
    /\ error = "none"

SpecOverlap == InitOverlap /\ [][Next]_vars

----------------------------------------------------------------------------
(* The local-maxima step as a function of one sub-volume: the run starts    *)
(* where find_local_maxima starts, with a single blob whose bounding box   *)
(* is the whole volume, and the sub-volume and the window size are drawn   *)
(* from bounded sets.                                                      *)

MaxPeak == 2
MaxWindow == 4

RoiShapes == {<<1, 1, 4>>, <<1, 2, 3>>}
PlateauShape == <<2, 3, 4>>

\* the boxes inside a volume, as sets of voxels
Boxes(sh) ==
    {{v \in Vox(sh) : \A axis \in 1..3 : lo[axis] <= v[axis] /\ v[axis] <= hi[axis]} :
        lo \in Vox(sh), hi \in Vox(sh)} \ {{}}

\* a block of one uniform intensity surrounded by zeros
Plateaus(sh) ==
    {[v \in Vox(sh) |-> IF v \in box THEN x ELSE 0] :
        box \in Boxes(sh), x \in 1..MaxPeak}

SubVolumes(sh) ==
    IF sh = PlateauShape THEN Plateaus(sh) ELSE [Vox(sh) -> 0..MaxPeak]

WholeVolume(sh) ==
    GEBlob(<<0, sh[1]>>, <<0, sh[2]>>, <<0, sh[3]>>, 1, sh[1] * sh[2] * sh[3])

InitMaxima ==
    /\ pc = "labeled"
    /\ shape \in RoiShapes \cup {PlateauShape}
    /\ frames \in SubVolumes(shape)
    /\ ge_data = frames
    /\ ge_smooth_data = frames
    /\ threshold = 0
    /\ gauss_sigma = "0"
    /\ min_blob_size = 0
    /\ min_peak_separation \in 1..MaxWindow
    /\ ge_labeled_data = [v \in Vox(shape) |-> 1]
    /\ number_of_labels = 1
    /\ int_scale_factor = <<1, 1>>
    /\ blob_sizes = <<0, shape[1] * shape[2] * shape[3]>>
    /\ blobs = <<WholeVolume(shape)>>
    /\ blob_i = 1
    /\ error = "none"

NextMaxima ==
    \/ find_local_maxima_blob
    \/ find_local_maxima_return

SpecMaxima == InitMaxima /\ [][NextMaxima]_vars

----------------------------------------------------------------------------
(* Vocabulary of the properties *)

BlobIndices == 1..Len(blobs)

\* the voxels of the label volume that carry a label
Labelled(label) == {v \in DOMAIN ge_labeled_data : ge_labeled_data[v] = label}

Extent(blob, axis) == BlobSlice(blob, axis)[2] - BlobSlice(blob, axis)[1]

MinExtent(blob) == SetMin({Extent(blob, axis) : axis \in 1..3})

\* x >= cbrt(m) on non-negative integers
AtLeastCubeRoot(x, m) == x * x * x >= m

\* the box is the smallest axis-aligned box that contains the set S
TightBox(blob, S) ==
    /\ S # {}
    /\ \A v \in S : v \in Roi(blob)
    /\ \A axis \in 1..3 :
          /\ \E v \in S : v[axis] = BlobSlice(blob, axis)[1]
          /\ \E v \in S : v[axis] = BlobSlice(blob, axis)[2] - 1

FindBlobsDone == pc \in {"labeled", "done"}

\* C1: after find_blobs every Blob of the list has a label other than 0, a
\* recorded size of at least min_blob_size, and a smallest bounding-box
\* extent of at least the cube root of min_blob_size.
C1_BlobInvariant ==
    FindBlobsDone =>
        \A i \in BlobIndices :
            /\ blobs[i].blob_label # 0
            /\ blobs[i].blob_size >= min_blob_size
            /\ AtLeastCubeRoot(MinExtent(blobs[i]), min_blob_size)

\* a blob passed a size filter that rejects thinner components
C1_Witness ==
    /\ FindBlobsDone
    /\ min_blob_size >= 2
    /\ blobs # << >>
    /\ number_of_labels > Len(blobs)

\* C2: for every Blob of the list, whatever the foreground mask, the recorded
\* size is the number of voxels of the label volume that carry the Blob's
\* label, and the recorded bounding box is the smallest box containing them.
C2_SizeAndBoxMatchLabel ==
    FindBlobsDone =>
        \A i \in BlobIndices :
            /\ blobs[i].blob_size = Cardinality(Labelled(blobs[i].blob_label))
            /\ TightBox(blobs[i], Labelled(blobs[i].blob_label))

\* the labels that meet both criteria of the blob filter
Qualifying ==
    {l \in 1..number_of_labels :
        /\ Cardinality(Labelled(l)) >= min_blob_size
        /\ \A axis \in 1..3 :
              AtLeastCubeRoot(SetMax({v[axis] : v \in Labelled(l)})
                              - SetMin({v[axis] : v \in Labelled(l)}) + 1,
                              min_blob_size)}

\* C3: the blob list holds exactly one Blob for each label of
\* 1..number_of_labels with at least min_blob_size voxels and a smallest
\* extent of at least cbrt(min_blob_size), no other Blob, in strictly
\* ascending label order.
C3_ExactlyTheQualifyingLabels ==
    FindBlobsDone =>
        /\ {blobs[i].blob_label : i \in BlobIndices} = Qualifying
        /\ \A i, j \in BlobIndices :
              i < j => blobs[i].blob_label < blobs[j].blob_label

\* the normalized stack as load_data stored it, before find_local_maxima
Normalized == LoadedData(frames, threshold)

\* the voxels of the blob's sub-volume inside the separation window centred on p
InWindow(blob, p, size) ==
    {q \in Roi(blob) : \A axis \in 1..3 : (q[axis] - p[axis]) \in FilterOffsets(size)}

\* C4: once find_local_maxima has processed all blobs, no surviving
\* (non-zero) peak p of a blob's sub-volume has, within the separation window
\* centred on p, a voxel of the blob's sub-volume whose normalized
\* (pre-suppression) intensity is strictly greater than that of p.
C4_NoGreaterVoxelInWindow ==
    pc = "done" =>
        \A i \in BlobIndices : \A p \in Roi(blobs[i]) :
            ge_data[p] # 0 =>
                \A q \in InWindow(blobs[i], p, min_peak_separation) :
                    Normalized[q] <= ge_data[p]

\* C5: in a run of the whole pipeline no voxel whose normalized intensity is
\* below scale_factor * threshold is left non-zero in a blob's
\* peak-suppressed sub-volume.
C5_NoPeakBelowScaledThreshold ==
    pc = "done" =>
        \A i \in BlobIndices : \A v \in Roi(blobs[i]) :
            BelowScaledThreshold(Normalized[v], int_scale_factor, threshold)
                => ge_data[v] = 0

\* a voxel below the scaled threshold passes the equality test of its blob
\* under a window of more than one voxel
C5_Witness ==
    /\ pc = "done"
    /\ min_peak_separation >= 2
    /\ \E i \in BlobIndices : \E v \in Roi(blobs[i]) :
          /\ BelowScaledThreshold(Normalized[v], int_scale_factor, threshold)
          /\ v \in MaxPoints(Normalized, blobs[i], min_peak_separation)

\* the blob's sub-volume of a volume
SubVolume(data, blob) == [v \in Roi(blob) |-> data[v]]

\* C6: each blob's peak-suppressed sub-volume is the one that processing the
\* blob alone on the normalized stack gives.
C6_BlobsIndependent ==
    pc = "done" =>
        \A i \in BlobIndices :
            SubVolume(ge_data, blobs[i]) =
                SubVolume(SuppressNonMaxima(Normalized, blobs[i],
                                            min_peak_separation), blobs[i])

\* C7: find_local_maxima only reads: no step of it changes ge_data, the
\* smoothed volume, the label volume, the scale factor or the blob list.
C7_FindLocalMaximaReadsOnly ==
    [][pc = "labeled" =>
          /\ ge_data' = ge_data
          /\ ge_smooth_data' = ge_smooth_data
          /\ ge_labeled_data' = ge_labeled_data
          /\ int_scale_factor' = int_scale_factor
          /\ blobs' = blobs]_vars

\* the input load_data must reject: no frame, or no voxel >= threshold
NothingToNormalize ==
    \/ shape[1] = 0
    \/ \A v \in DOMAIN frames : frames[v] < threshold

\* C8: given a stack with no voxel >= threshold, or with no frame, load_data
\* signals an error instead of returning a volume, and ge_data and
\* int_scale_factor keep the values they had before the call.
C8_LoadDataRejects ==
    (NothingToNormalize /\ pc # "constructed") =>
        /\ pc = "failed"
        /\ error # "none"
        /\ ge_data = Empty
        /\ int_scale_factor = <<1, 1>>

\* load_data rejected a stack that has lit voxels, all below the threshold
C8_Witness ==
    /\ pc = "failed"
    /\ error = "ZeroDivisionError"
    /\ \E v \in DOMAIN frames : frames[v] > 0

\* the voxels a volume leaves non-zero
NonZero(data) == {v \in DOMAIN data : data[v] # 0}

\* C9: for a fixed sub-volume and window sizes s1 <= s2, the voxels that
\* survive the local-maxima step with window s2 are among those that survive
\* it with window s1.
C9_SeparationMonotone ==
    pc = "done" =>
        \A s1 \in 1..min_peak_separation :
            NonZero(ge_data) \subseteq
                NonZero(SuppressNonMaxima(frames, blobs[1], s1))

\* a wider window removed a peak that the one-voxel window keeps
C9_Witness ==
    /\ pc = "done"
    /\ min_peak_separation >= 3
    /\ NonZero(ge_data) # {}
    /\ NonZero(ge_data) # NonZero(SuppressNonMaxima(frames, blobs[1], 1))

\* the volume is a box of one uniform non-zero intensity surrounded by zeros
IsPlateau(data) ==
    LET block == NonZero(data)
    IN  /\ block # {}
        /\ \A v, w \in block : data[v] = data[w]
        /\ \A v \in DOMAIN data :
              (\A axis \in 1..3 : /\ \E w \in block : w[axis] <= v[axis]
                                  /\ \E w \in block : v[axis] <= w[axis])
                  => v \in block

\* the largest extent of the non-zero block
BlockExtent(data) ==
    SetMax({SetMax({v[axis] : v \in NonZero(data)})
            - SetMin({v[axis] : v \in NonZero(data)}) + 1 : axis \in 1..3})

PlateauCase ==
    /\ pc = "done"
    /\ IsPlateau(frames)
    /\ min_peak_separation > BlockExtent(frames)

====
